---- MODULE Spec2Model ----
(***************************************************************************)
(* A model of arc-cow's ArcCow<'a, T> (src/src/lib.rs): a value that is    *)
(* either Borrowed(&'a T) or Owned(Arc<T>), its conversions, its clone and *)
(* drop, and the traits that read it (PartialEq, PartialOrd, Ord, Hash,    *)
(* Debug, Deref, AsRef, Borrow).                                           *)
(*                                                                         *)
(* A content value of T is a record [ty, b]: ty tells str from a slice     *)
(* ([u8] / [T]), b is the sequence of bytes (elements).  A shared          *)
(* reference &'a T to frozen memory is modelled by the content it points   *)
(* to.  An Arc<T> is an address of the heap; a heap cell holds the data    *)
(* and the strong count.                                                   *)
(***************************************************************************)
EXTENDS Integers, Sequences, FiniteSets

VARIABLES heap, vals, ghost, arcs, fam, out, map, mghost, thr

vars == <<heap, vals, ghost, arcs, fam, out, map, mghost, thr>>

---------------------------------------------------------------------------
(* Bounds of the model *)

MaxLen == 1
MaxVals == 2
MaxAllocs == 2
MaxThreads == 2
MaxLocal == 2
MaxKeys == 2
NBuckets == 2

ByteVals == {97, 98}
Types == {"str", "slice"}
Slots == 1 .. MaxVals
Addrs == 1 .. MaxAllocs

ByteSeqs == UNION {[1 .. k -> ByteVals] : k \in 0 .. MaxLen}
TVals == [ty : Types, b : ByteSeqs]
StrVals == {x \in TVals : x.ty = "str"}

\* the texts and sequences the caller converts and uses as keys: "", "a", "aa"
Texts == {b \in ByteSeqs : \A k \in 1 .. Len(b) : b[k] = 97}

Str(b) == [ty |-> "str", b |-> b]
Slice(b) == [ty |-> "slice", b |-> b]

---------------------------------------------------------------------------
(* The content type T: its equality, order, hash and Debug (std) *)

Min2(a, b) == IF a <= b THEN a ELSE b

CmpInt(a, b) == IF a < b THEN "Less" ELSE IF a = b THEN "Equal" ELSE "Greater"

\* str and [u8] compare lexicographically, element by element, then by length
TCmp(x, y) ==
  LET n == Min2(Len(x.b), Len(y.b))
      diff == {i \in 1 .. n : x.b[i] # y.b[i]}
  IN IF diff = {} THEN CmpInt(Len(x.b), Len(y.b))
     ELSE LET i == CHOOSE k \in diff : \A m \in diff : k <= m
          IN CmpInt(x.b[i], y.b[i])

TPartialCmp(x, y) == <<"Some", TCmp(x, y)>>

TEq(x, y) == x.ty = y.ty /\ Len(x.b) = Len(y.b) /\ \A i \in 1 .. Len(x.b) : x.b[i] = y.b[i]

\* Hash for str writes the bytes and then 0xff; Hash for a slice writes the
\* length and then the elements
THash(x, state) ==
  IF x.ty = "str" THEN state \o x.b \o <<255>>
  ELSE state \o <<Len(x.b)>> \o x.b

RECURSIVE Digits(_)
Digits(n) == IF n < 10 THEN <<48 + n>> ELSE Digits(n \div 10) \o <<48 + (n % 10)>>

RECURSIVE DebugElems(_)
DebugElems(b) ==
  IF Len(b) = 0 THEN <<>>
  ELSE IF Len(b) = 1 THEN Digits(b[1])
  ELSE Digits(b[1]) \o <<44, 32>> \o DebugElems(Tail(b))

\* Debug for str: the text between double quotes (the bytes of ByteVals need
\* no escape); Debug for a slice: [e1, e2, ...]
TDebug(x, f) ==
  IF x.ty = "str" THEN f \o <<34>> \o x.b \o <<34>>
  ELSE f \o <<91>> \o DebugElems(x.b) \o <<93>>

---------------------------------------------------------------------------
(* Arc<T>: the heap *)

Poison == [ty |-> "poison", b |-> <<>>]
FreeCell == [st |-> "free", data |-> Poison, strong |-> 0]

\* the address the allocator hands out: the lowest free one (the model is
\* symmetric in the addresses)
FreeAddrs(h) ==
  LET free == {a \in Addrs : h[a].st = "free"}
  IN {a \in free : \A c \in free : a <= c}

\* Arc::new / Arc::from: a fresh allocation holding x, strong count 1
ArcAlloc(h, a, x) == [h EXCEPT ![a] = [st |-> "live", data |-> x, strong |-> 1]]

\* Arc::clone: strong.fetch_add(1)
ArcClone(h, a) == [h EXCEPT ![a].strong = @ + 1]

\* Arc::drop, first half: strong.fetch_sub(1)
ArcRelease(h, a) == [h EXCEPT ![a].strong = @ - 1]

\* Arc::drop, second half (drop_slow): the data is dropped and the memory freed;
\* freeing a cell that is not live is a double free
ArcDealloc(h, a) ==
  IF h[a].st = "live" THEN [h EXCEPT ![a] = FreeCell]
  ELSE [h EXCEPT ![a].st = "corrupt"]

\* whether the handle that did the fetch_sub was the last one
ArcWasLast(old) == old = 1

ArcDrop(h, a) ==
  IF ArcWasLast(h[a].strong) THEN ArcDealloc(ArcRelease(h, a), a) ELSE ArcRelease(h, a)

\* &**arc: the data behind the handle
ArcData(h, a) == h[a].data

---------------------------------------------------------------------------
(* ArcCow *)

NoVal == [tag |-> "None"]
Borrowed(x) == [tag |-> "Borrowed", ref |-> x]
Owned(a) == [tag |-> "Owned", ptr |-> a]

Live(v) == v.tag # "None"

AsRef(v, h) == IF v.tag = "Borrowed" THEN v.ref ELSE ArcData(h, v.ptr)

Deref(v, h) == IF v.tag = "Borrowed" THEN v.ref ELSE ArcData(h, v.ptr)

Borrow(v, h) == IF v.tag = "Borrowed" THEN v.ref ELSE ArcData(h, v.ptr)

\* not the code, a faulty variant: a derived PartialEq: the variants are compared first
EqDerived(v, w, h) == v.tag = w.tag /\ TEq(AsRef(v, h), AsRef(w, h))

Eq(v, w, h) == TEq(AsRef(v, h), AsRef(w, h))

PartialCmp(v, w, h) == TPartialCmp(AsRef(v, h), AsRef(w, h))

\* not the code, a faulty variant: a derived Ord: Borrowed sorts before Owned
CmpDerived(v, w, h) ==
  IF v.tag = w.tag THEN TCmp(AsRef(v, h), AsRef(w, h))
  ELSE IF v.tag = "Borrowed" THEN "Less" ELSE "Greater"

Cmp(v, w, h) == TCmp(AsRef(v, h), AsRef(w, h))

\* not the code, a faulty variant: a derived Hash: the discriminant is hashed before the content
HashDerived(v, h, state) ==
  IF v.tag = "Borrowed" THEN THash(v.ref, state \o <<0>>)
  ELSE THash(ArcData(h, v.ptr), state \o <<1>>)

Hash(v, h, state) ==
  IF v.tag = "Borrowed" THEN THash(v.ref, state) ELSE THash(ArcData(h, v.ptr), state)

\* not the code, a faulty variant: a derived Debug: Borrowed(..) / Owned(..) around the content
FmtDerived(v, h, f) ==
  IF v.tag = "Borrowed" THEN TDebug(v.ref, f \o <<66, 40>>) \o <<41>>
  ELSE TDebug(ArcData(h, v.ptr), f \o <<79, 40>>) \o <<41>>

Fmt(v, h, f) ==
  IF v.tag = "Borrowed" THEN TDebug(v.ref, f) ELSE TDebug(ArcData(h, v.ptr), f)

\* not the code, a faulty variant: a clone that takes no new reference
CloneHeapNoCount(v, h) == h

\* clone: the value and the heap after it
CloneVal(v) == IF v.tag = "Borrowed" THEN Borrowed(v.ref) ELSE Owned(v.ptr)

CloneHeap(v, h) == IF v.tag = "Borrowed" THEN h ELSE ArcClone(h, v.ptr)

\* not the code, a faulty variant: a drop that frees the allocation whatever the count is
DropHeapFree(v, h) == IF v.tag = "Owned" THEN ArcDealloc(h, v.ptr) ELSE h

\* drop glue of the enum: a Borrowed drops nothing, an Owned drops its Arc
DropHeap(v, h) == IF v.tag = "Owned" THEN ArcDrop(h, v.ptr) ELSE h

---------------------------------------------------------------------------
(* A hash table keyed by ArcCow<str> (std HashMap / HashSet): buckets of     *)
(* entries [k, v], found by the hash of the key and then by ==               *)

Buckets == 0 .. NBuckets - 1
MapVals == {1, 2}

\* Hasher::finish: a number made of everything that was written
RECURSIVE Mix(_, _)
Mix(acc, feed) ==
  IF Len(feed) = 0 THEN acc ELSE Mix((acc * 31 + Head(feed)) % 65536, Tail(feed))

Finish(feed) == Mix(7, feed)

BucketOf(hash) == hash % NBuckets

\* the entries of bucket bkt whose key is == to k
FindKey(bkt, k, h) == {i \in 1 .. Len(bkt) : Eq(bkt[i].k, k, h)}

\* the entries whose key, borrowed as &T, is equal to q
FindBorrowed(bkt, q, h) == {i \in 1 .. Len(bkt) : TEq(Borrow(bkt[i].k, h), q)}

RECURSIVE LenUpTo(_, _)
LenUpTo(m, c) == IF c < 0 THEN 0 ELSE Len(m[c]) + LenUpTo(m, c - 1)

MapLen(m) == LenUpTo(m, NBuckets - 1)

\* map.get(&key): the value, or 0 for None
MapGetOp(m, h, k) ==
  LET c == BucketOf(Finish(Hash(k, h, <<>>)))
      hit == FindKey(m[c], k, h)
  IN IF hit = {} THEN 0 ELSE m[c][CHOOSE i \in hit : TRUE].v

\* map.get(q) with q: &T, through Borrow<T>
MapGetBorrowedOp(m, h, q) ==
  LET c == BucketOf(Finish(THash(q, <<>>)))
      hit == FindBorrowed(m[c], q, h)
  IN IF hit = {} THEN 0 ELSE m[c][CHOOSE i \in hit : TRUE].v

\* map.insert(key, v): an entry with an == key keeps its key and takes the new
\* value, and the new key is dropped; otherwise a new entry
MapInsertMap(m, h, k, v) ==
  LET c == BucketOf(Finish(Hash(k, h, <<>>)))
      hit == FindKey(m[c], k, h)
  IN IF hit = {} THEN [m EXCEPT ![c] = Append(@, [k |-> k, v |-> v])]
     ELSE [m EXCEPT ![c][CHOOSE i \in hit : TRUE].v = v]

MapInsertHeap(m, h, k, v) ==
  LET c == BucketOf(Finish(Hash(k, h, <<>>)))
      hit == FindKey(m[c], k, h)
  IN IF hit = {} THEN h ELSE DropHeap(k, h)

---------------------------------------------------------------------------
(* The state *)

Threads == 1 .. MaxThreads
Locals == 1 .. MaxLocal

\* a thread: where it is (running, or between the fetch_sub of a drop that took
\* the last reference and the deallocation), the values it owns, and (ghost)
\* whether it did the deallocation
Idle == [pc |-> "run", loc |-> [i \in Locals |-> NoVal], freed |-> FALSE]

NoOut == [op |-> "none", a |-> 0, b |-> 0, res |-> 0]
NoFam == [ptr |-> 0, pre |-> 0, members |-> {}, peak |-> 0]

\* ghost: the variant and the content each value was constructed with
Made(tag, x) == [tag |-> tag, content |-> x]

\* fam (ghost): the value constructed last from &Arc<T> and its clones, with the
\* strong count before the construction; forgotten as soon as any other handle
\* of that allocation is created, moved or dropped
Forget(a) == IF fam.ptr = a THEN NoFam ELSE fam

Init ==
  /\ heap = [a \in Addrs |-> FreeCell]
  /\ vals = [s \in Slots |-> NoVal]
  /\ ghost = [s \in Slots |-> NoVal]
  /\ arcs = [a \in Addrs |-> 0]
  /\ fam = NoFam
  /\ out = NoOut
  /\ map = [k \in Buckets |-> <<>>]
  /\ mghost = [x \in StrVals |-> 0]
  /\ thr = [t \in Threads |-> Idle]

Rest == UNCHANGED <<map, mghost, thr>>

Put(s, v, tag, x) ==
  /\ vals' = [vals EXCEPT ![s] = v]
  /\ ghost' = [ghost EXCEPT ![s] = Made(tag, x)]

---------------------------------------------------------------------------
(* The caller's own Arc handles *)

\* let a: Arc<T> = Arc::new(x) / Arc::from(x)
ArcNew(a, x) ==
  /\ a \in FreeAddrs(heap)
  /\ \A c \in Addrs : arcs[c] = 0
  /\ heap' = ArcAlloc(heap, a, x)
  /\ arcs' = [arcs EXCEPT ![a] = 1]
  /\ fam' = Forget(a)
  /\ out' = NoOut
  /\ UNCHANGED <<vals, ghost>> /\ Rest

\* the caller's handle goes out of scope
ArcEnd(a) ==
  /\ arcs[a] = 1
  /\ heap' = ArcDrop(heap, a)
  /\ arcs' = [arcs EXCEPT ![a] = 0]
  /\ fam' = Forget(a)
  /\ out' = NoOut
  /\ UNCHANGED <<vals, ghost>> /\ Rest

---------------------------------------------------------------------------
(* Conversions *)

\* From<&'a T>
FromRef(s, x) ==
  /\ ~Live(vals[s])
  /\ Put(s, Borrowed(x), "Borrowed", x)
  /\ out' = NoOut
  /\ UNCHANGED <<heap, arcs, fam>> /\ Rest

\* From<Arc<T>>: the handle is moved into the value
FromArc(s, a) ==
  /\ ~Live(vals[s]) /\ arcs[a] = 1
  /\ Put(s, Owned(a), "Owned", heap[a].data)
  /\ arcs' = [arcs EXCEPT ![a] = 0]
  /\ fam' = Forget(a)
  /\ out' = NoOut
  /\ UNCHANGED heap /\ Rest

\* not the code, a faulty variant: the handle is taken without a clone
FromArcRefHeapNoClone(h, a) == h

\* From<&Arc<T>>: the handle is cloned, the caller keeps its own
FromArcRefHeap(h, a) == ArcClone(h, a)

FromArcRef(s, a) ==
  /\ ~Live(vals[s]) /\ arcs[a] = 1
  /\ Put(s, Owned(a), "Owned", heap[a].data)
  /\ heap' = FromArcRefHeap(heap, a)
  /\ fam' = IF \E t \in Slots : vals[t] = Owned(a) THEN Forget(a)
            ELSE [ptr |-> a, pre |-> heap[a].strong, members |-> {s}, peak |-> 1]
  /\ out' = NoOut
  /\ UNCHANGED arcs /\ Rest

\* String -> Arc<str> (value.into()): the text is copied into a new allocation
StringIntoArc(h, a, b) == ArcAlloc(h, a, Str(b))

\* From<String> for ArcCow<str>
FromString(s, b) ==
  /\ ~Live(vals[s])
  /\ \E a \in FreeAddrs(heap) :
       /\ heap' = StringIntoArc(heap, a, b)
       /\ Put(s, Owned(a), "Owned", Str(b))
       /\ fam' = Forget(a)
  /\ out' = NoOut
  /\ UNCHANGED arcs /\ Rest

\* From<&String> for ArcCow<str>: value.clone().into()
FromStringRef(s, b) ==
  /\ ~Live(vals[s])
  /\ \E a \in FreeAddrs(heap) :
       /\ heap' = StringIntoArc(heap, a, b)
       /\ Put(s, Owned(a), "Owned", Str(b))
       /\ fam' = Forget(a)
  /\ out' = NoOut
  /\ UNCHANGED arcs /\ Rest

\* not the code, a faulty variant: the arms of the match swapped
CowAllocatesSwapped(cow) == cow.tag = "Borrowed"

\* From<Cow<'a, str>>: cow is [tag, b]; whether the match takes the arm that
\* allocates (owned.into())
CowAllocates(cow) == cow.tag = "Owned"

FromCow(s, cow) ==
  /\ ~Live(vals[s])
  /\ IF ~CowAllocates(cow)
     THEN /\ Put(s, Borrowed(Str(cow.b)), cow.tag, Str(cow.b))
          /\ UNCHANGED <<heap, fam>>
     ELSE \E a \in FreeAddrs(heap) :
            /\ heap' = StringIntoArc(heap, a, cow.b)
            /\ Put(s, Owned(a), cow.tag, Str(cow.b))
            /\ fam' = Forget(a)
  /\ out' = NoOut
  /\ UNCHANGED arcs /\ Rest

\* From<Vec<T>> for ArcCow<[T]>: Arc::from(vec)
FromVec(s, b) ==
  /\ ~Live(vals[s])
  /\ \E a \in FreeAddrs(heap) :
       /\ heap' = ArcAlloc(heap, a, Slice(b))
       /\ Put(s, Owned(a), "Owned", Slice(b))
       /\ fam' = Forget(a)
  /\ out' = NoOut
  /\ UNCHANGED arcs /\ Rest

\* str::as_bytes: the same bytes, seen as [u8]
AsBytes(b) == Slice(b)

\* From<&'a str> for ArcCow<[u8]>
FromStrBytes(s, b) ==
  /\ ~Live(vals[s])
  /\ Put(s, Borrowed(AsBytes(b)), "Borrowed", Slice(b))
  /\ out' = NoOut
  /\ UNCHANGED <<heap, arcs, fam>> /\ Rest

---------------------------------------------------------------------------
(* Clone and drop *)

Clone(s, d) ==
  /\ Live(vals[s]) /\ ~Live(vals[d])
  /\ vals' = [vals EXCEPT ![d] = CloneVal(vals[s])]
  /\ ghost' = [ghost EXCEPT ![d] = ghost[s]]
  /\ heap' = CloneHeap(vals[s], heap)
  /\ fam' = IF s \in fam.members
            THEN [fam EXCEPT !.members = @ \cup {d},
                             !.peak = IF Cardinality(fam.members) + 1 > @
                                      THEN Cardinality(fam.members) + 1 ELSE @]
            ELSE IF vals[s].tag = "Owned" THEN Forget(vals[s].ptr) ELSE fam
  /\ out' = [op |-> "clone", a |-> s, b |-> d, res |-> 0]
  /\ UNCHANGED arcs /\ Rest

Drop(s) ==
  /\ Live(vals[s])
  /\ vals' = [vals EXCEPT ![s] = NoVal]
  /\ ghost' = [ghost EXCEPT ![s] = NoVal]
  /\ heap' = DropHeap(vals[s], heap)
  /\ fam' = IF s \in fam.members THEN [fam EXCEPT !.members = @ \ {s}]
            ELSE IF vals[s].tag = "Owned" THEN Forget(vals[s].ptr) ELSE fam
  /\ out' = NoOut
  /\ UNCHANGED arcs /\ Rest

---------------------------------------------------------------------------
(* Reads: the result of the last one is in out *)

Read(op, i, j, res) ==
  /\ out' = [op |-> op, a |-> i, b |-> j, res |-> res]
  /\ UNCHANGED <<heap, vals, ghost, arcs, fam>> /\ Rest

\* both operands have the same type ArcCow<'_, T>
SameT(i, j) ==
  /\ Live(vals[i]) /\ Live(vals[j])
  /\ AsRef(vals[i], heap).ty = AsRef(vals[j], heap).ty

DoEq(i, j) == SameT(i, j) /\ Read("eq", i, j, Eq(vals[i], vals[j], heap))

DoPartialCmp(i, j) == SameT(i, j) /\ Read("partial_cmp", i, j, PartialCmp(vals[i], vals[j], heap))

DoCmp(i, j) == SameT(i, j) /\ Read("cmp", i, j, Cmp(vals[i], vals[j], heap))

DoHash(i) == Live(vals[i]) /\ Read("hash", i, 0, Hash(vals[i], heap, <<>>))

DoFmt(i) == Live(vals[i]) /\ Read("fmt", i, 0, Fmt(vals[i], heap, <<>>))

DoDeref(i) == Live(vals[i]) /\ Read("deref", i, 0, Deref(vals[i], heap))

DoAsRef(i) == Live(vals[i]) /\ Read("as_ref", i, 0, AsRef(vals[i], heap))

DoBorrow(i) == Live(vals[i]) /\ Read("borrow", i, 0, Borrow(vals[i], heap))

---------------------------------------------------------------------------
(* The hash table's operations *)

Variants == {"Borrowed", "Owned"}

\* the key ArcCow::from("k") (Borrowed) or ArcCow::from("k".to_string()) (Owned,
\* allocated at a), and the heap with it
KeyVal(tag, a, b) == IF tag = "Borrowed" THEN Borrowed(Str(b)) ELSE Owned(a)
KeyHeap(tag, a, b) == IF tag = "Borrowed" THEN heap ELSE StringIntoArc(heap, a, b)
KeyAddrs(tag) == IF tag = "Borrowed" THEN {0} ELSE FreeAddrs(heap)

\* map.insert(key, v)
MapInsert(tag, b, v) ==
  \E a \in KeyAddrs(tag) :
    LET k == KeyVal(tag, a, b)
        h == KeyHeap(tag, a, b)
    IN /\ MapLen(map) < MaxKeys \/ MapGetOp(map, h, k) # 0
       /\ map' = MapInsertMap(map, h, k, v)
       /\ heap' = MapInsertHeap(map, h, k, v)
       /\ mghost' = [mghost EXCEPT ![Str(b)] = v]
       /\ out' = NoOut
       /\ UNCHANGED <<vals, ghost, arcs, fam, thr>>

\* map.get(&key), the key dropped afterwards
MapGet(tag, b) ==
  \E a \in KeyAddrs(tag) :
    LET k == KeyVal(tag, a, b)
        h == KeyHeap(tag, a, b)
    IN /\ out' = [op |-> "get", a |-> tag, b |-> Str(b), res |-> MapGetOp(map, h, k)]
       /\ heap' = DropHeap(k, h)
       /\ UNCHANGED <<vals, ghost, arcs, fam, map, mghost, thr>>

\* map.get("k") with a plain &str
MapGetBorrowed(b) ==
  /\ out' = [op |-> "get", a |-> "T", b |-> Str(b),
             res |-> MapGetBorrowedOp(map, heap, Str(b))]
  /\ UNCHANGED <<heap, vals, ghost, arcs, fam, map, mghost, thr>>

NextMap ==
  \/ \E tag \in Variants, b \in Texts, v \in MapVals : MapInsert(tag, b, v)
  \/ \E tag \in Variants, b \in Texts : MapGet(tag, b)
  \/ \E b \in Texts : MapGetBorrowed(b)

SpecMap == Init /\ [][NextMap]_vars

---------------------------------------------------------------------------
(* Threads sharing one allocation *)

\* the allocation the threads share, and what it holds
Shared == 1
SharedData == Str(<<97>>)
Static == Str(<<98>>)

InitConc ==
  /\ heap = [a \in Addrs |->
               IF a = Shared THEN [st |-> "live", data |-> SharedData, strong |-> 1]
               ELSE FreeCell]
  /\ vals = [s \in Slots |-> NoVal]
  /\ ghost = [s \in Slots |-> NoVal]
  /\ arcs = [a \in Addrs |-> 0]
  /\ fam = NoFam
  /\ out = NoOut
  /\ map = [k \in Buckets |-> <<>>]
  /\ mghost = [x \in StrVals |-> 0]
  /\ thr = [t \in Threads |->
              IF t = 1 THEN [Idle EXCEPT !.loc[1] = Owned(Shared)] ELSE Idle]

Others == UNCHANGED <<vals, ghost, arcs, fam, map, mghost>>

\* ArcCow::from(&STATIC) in thread t
TBorrow(t, j) ==
  /\ thr[t].pc = "run" /\ ~Live(thr[t].loc[j])
  /\ thr' = [thr EXCEPT ![t].loc[j] = Borrowed(Static)]
  /\ UNCHANGED <<heap, out>> /\ Others

\* thread t clones one of its values; the clone stays with t or is moved to
\* thread u (ArcCow is Send)
TClone(t, i, u, j) ==
  /\ thr[t].pc = "run" /\ Live(thr[t].loc[i])
  /\ ~Live(thr[u].loc[j]) /\ <<t, i>> # <<u, j>>
  /\ thr' = [thr EXCEPT ![u].loc[j] = CloneVal(thr[t].loc[i])]
  /\ heap' = CloneHeap(thr[t].loc[i], heap)
  /\ UNCHANGED out /\ Others

\* thread t reads one of its values
TRead(t, i) ==
  /\ thr[t].pc = "run" /\ Live(thr[t].loc[i])
  /\ out' = [op |-> "deref", a |-> 0, b |-> 0, res |-> Deref(thr[t].loc[i], heap)]
  /\ UNCHANGED <<heap, thr>> /\ Others

\* thread t drops one of its values: nothing to do for a Borrowed; for an Owned
\* the fetch_sub, and the deallocation is left to do if that was the last handle
TDrop(t, i) ==
  /\ thr[t].pc = "run" /\ Live(thr[t].loc[i])
  /\ LET v == thr[t].loc[i]
         last == v.tag = "Owned" /\ ArcWasLast(heap[v.ptr].strong)
     IN /\ heap' = IF v.tag = "Owned" THEN ArcRelease(heap, v.ptr) ELSE heap
        /\ thr' = [thr EXCEPT ![t].loc[i] = NoVal,
                              ![t].pc = IF last THEN "free" ELSE "run"]
  /\ UNCHANGED out /\ Others

\* the thread that took the last reference deallocates
TFree(t) ==
  /\ thr[t].pc = "free"
  /\ heap' = ArcDealloc(heap, Shared)
  /\ thr' = [thr EXCEPT ![t].pc = "run", ![t].freed = TRUE]
  /\ UNCHANGED out /\ Others

NextConc ==
  \/ \E t \in Threads, j \in Locals : TBorrow(t, j)
  \/ \E t \in Threads, i \in Locals, u \in Threads, j \in Locals : TClone(t, i, u, j)
  \/ \E t \in Threads, i \in Locals : TRead(t, i)
  \/ \E t \in Threads, i \in Locals : TDrop(t, i)
  \/ \E t \in Threads : TFree(t)

SpecConc == InitConc /\ [][NextConc]_vars

---------------------------------------------------------------------------
(* The specifications of the values alone *)

Cows == [tag : {"Borrowed", "Owned"}, b : ByteSeqs]

LifeVals == [ty : Types, b : Texts]
LifeCows == [tag : {"Borrowed", "Owned"}, b : Texts]

\* the conversions, clone and drop, with the caller's own Arc handles
Next ==
  \/ \E a \in Addrs, x \in LifeVals : ArcNew(a, x)
  \/ \E a \in Addrs : ArcEnd(a)
  \/ \E s \in Slots, x \in LifeVals : FromRef(s, x)
  \/ \E s \in Slots, a \in Addrs : FromArc(s, a)
  \/ \E s \in Slots, a \in Addrs : FromArcRef(s, a)
  \/ \E s \in Slots, b \in Texts : FromString(s, b)
  \/ \E s \in Slots, b \in Texts : FromStringRef(s, b)
  \/ \E s \in Slots, cow \in LifeCows : FromCow(s, cow)
  \/ \E s \in Slots, b \in Texts : FromVec(s, b)
  \/ \E s \in Slots, b \in Texts : FromStrBytes(s, b)
  \/ \E s \in Slots, d \in Slots : Clone(s, d)
  \/ \E s \in Slots : Drop(s)

Spec == Init /\ [][Next]_vars

\* two operands a and b of either variant, and every read of them
Operands == {1, 2}

NextRead ==
  \/ \E s \in Operands, x \in TVals : FromRef(s, x)
  \/ \E s \in Operands, b \in ByteSeqs : FromString(s, b)
  \/ \E s \in Operands, b \in ByteSeqs : FromVec(s, b)
  \/ \E s \in Operands, d \in Operands : Clone(s, d)
  \/ \E s \in Operands : Drop(s)
  \/ \E i \in Operands, j \in Operands : DoEq(i, j)
  \/ \E i \in Operands, j \in Operands : DoPartialCmp(i, j)
  \/ \E i \in Operands, j \in Operands : DoCmp(i, j)
  \/ \E i \in Operands : DoHash(i)
  \/ \E i \in Operands : DoFmt(i)
  \/ \E i \in Operands : DoDeref(i)
  \/ \E i \in Operands : DoAsRef(i)
  \/ \E i \in Operands : DoBorrow(i)

SpecRead == Init /\ [][NextRead]_vars

\* every conversion, into one of two places
NextConv ==
  \/ \E a \in Addrs, x \in TVals : ArcNew(a, x)
  \/ \E a \in Addrs : ArcEnd(a)
  \/ \E s \in Operands, x \in TVals : FromRef(s, x)
  \/ \E s \in Operands, a \in Addrs : FromArc(s, a)
  \/ \E s \in Operands, a \in Addrs : FromArcRef(s, a)
  \/ \E s \in Operands, b \in ByteSeqs : FromString(s, b)
  \/ \E s \in Operands, b \in ByteSeqs : FromStringRef(s, b)
  \/ \E s \in Operands, cow \in Cows : FromCow(s, cow)
  \/ \E s \in Operands, b \in ByteSeqs : FromVec(s, b)
  \/ \E s \in Operands, b \in ByteSeqs : FromStrBytes(s, b)
  \/ \E s \in Operands : Drop(s)

SpecConv == Init /\ [][NextConv]_vars

---------------------------------------------------------------------------
(* Properties of the reads (SpecRead) *)

Content(s) == ghost[s].content
Tag(s) == ghost[s].tag

SameType(i, j) == Live(vals[i]) /\ Live(vals[j]) /\ Content(i).ty = Content(j).ty

\* C1: a == b is true exactly when the contents the two values were made from
\* are equal, whatever the two variants are, for the == just evaluated and for
\* every pair of live values
C1_EqIffContentEqual ==
  /\ out.op = "eq" => out.res = (Content(out.a) = Content(out.b))
  /\ \A i \in Slots, j \in Slots :
       SameType(i, j) => (Eq(vals[i], vals[j], heap) <=> Content(i) = Content(j))

C1_Witness ==
  /\ out.op = "eq" /\ out.res = TRUE
  /\ vals[out.a].tag = "Borrowed" /\ vals[out.b].tag = "Owned"

\* C2: hashing a value feeds the hasher what hashing its content feeds it, from
\* any hasher state, so equal values of any variants hash alike
HasherStates == {<<>>, <<7>>}

C2_HashIsContentHash ==
  /\ out.op = "hash" => out.res = THash(Content(out.a), <<>>)
  /\ \A i \in Slots, st \in HasherStates :
       Live(vals[i]) => Hash(vals[i], heap, st) = THash(Content(i), st)
  /\ \A i \in Slots, j \in Slots :
       (SameType(i, j) /\ Eq(vals[i], vals[j], heap))
         => Hash(vals[i], heap, <<>>) = Hash(vals[j], heap, <<>>)

C2_Witness ==
  /\ out.op = "hash"
  /\ \E j \in Slots :
       /\ Live(vals[j]) /\ vals[j].tag # vals[out.a].tag
       /\ Content(j) = Content(out.a)
       /\ Hash(vals[j], heap, <<>>) = out.res

\* C6: cmp and partial_cmp return what T's cmp and partial_cmp return on the
\* contents, and cmp is Equal exactly when the values are ==
C6_OrderIsContentOrder ==
  /\ out.op = "cmp" => out.res = TCmp(Content(out.a), Content(out.b))
  /\ out.op = "partial_cmp" => out.res = TPartialCmp(Content(out.a), Content(out.b))
  /\ \A i \in Slots, j \in Slots :
       SameType(i, j) =>
         /\ Cmp(vals[i], vals[j], heap) = TCmp(Content(i), Content(j))
         /\ PartialCmp(vals[i], vals[j], heap) = TPartialCmp(Content(i), Content(j))
         /\ (Cmp(vals[i], vals[j], heap) = "Equal") <=> Eq(vals[i], vals[j], heap)

C6_Witness ==
  /\ out.op = "cmp" /\ out.res = "Less"
  /\ vals[out.a].tag = "Owned" /\ vals[out.b].tag = "Borrowed"

C9_VariantNeverChanges ==
  [][\A s \in Slots :
       (Live(vals[s]) /\ Live(vals'[s])) =>
         /\ vals'[s].tag = vals[s].tag
         /\ AsRef(vals'[s], heap') = AsRef(vals[s], heap)
         /\ vals'[s].tag = Tag(s) /\ AsRef(vals'[s], heap') = Content(s)]_vars

C9_Witness ==
  /\ out.op = "borrow" /\ vals[out.a].tag = "Owned"
  /\ heap[vals[out.a].ptr].strong = 1
  /\ \E j \in Slots : vals[j].tag = "Borrowed"

---------------------------------------------------------------------------
(* Properties of the conversions (SpecConv), of clone and drop (Spec) *)

LiveCells(h) == {a \in Addrs : h[a].st = "live"}

\* C3: a clone has the variant of the original and is == to it; cloning a
\* Borrowed leaves the heap as it is; cloning an Owned gives a handle to the same
\* allocation, adds one to its strong count and changes nothing else
C3_CloneIsCheap ==
  [][out'.op = "clone" =>
       LET s == out'.a
           d == out'.b
       IN /\ vals'[s] = vals[s] /\ ~Live(vals[d])
          /\ vals'[d].tag = vals[s].tag
          /\ Eq(vals'[d], vals'[s], heap')
          /\ vals[s].tag = "Borrowed" => heap' = heap
          /\ vals[s].tag = "Owned" =>
               /\ vals'[d].ptr = vals[s].ptr
               /\ LiveCells(heap') = LiveCells(heap)
               /\ heap'[vals[s].ptr].strong = heap[vals[s].ptr].strong + 1
               /\ heap'[vals[s].ptr].data = heap[vals[s].ptr].data
               /\ \A a \in Addrs \ {vals[s].ptr} : heap'[a] = heap[a]]_vars

C3_Witness ==
  /\ out.op = "clone" /\ vals[out.a].tag = "Owned"
  /\ vals[out.b] = vals[out.a]
  /\ heap[vals[out.a].ptr].strong >= 2

\* C4: the value made from &Arc<T> and its clones add exactly their number to
\* the strong count the allocation had before, so the count is one more right
\* after the construction and back to what it was once they are all dropped;
\* the caller's handle stays usable.  And every strong count is the number of
\* handles there are.
Handles(a) == arcs[a] + Cardinality({s \in Slots : vals[s] = Owned(a)})

C4_CountAccounting ==
  /\ fam.ptr # 0 =>
       /\ heap[fam.ptr].st = "live"
       /\ heap[fam.ptr].strong = fam.pre + Cardinality(fam.members)
       /\ arcs[fam.ptr] = 1
       /\ \A s \in fam.members : vals[s] = Owned(fam.ptr)
  /\ \A a \in Addrs : heap[a].st = "live" => heap[a].strong = Handles(a)

C4_Witness ==
  /\ fam.ptr # 0 /\ fam.members = {} /\ fam.peak >= 2
  /\ heap[fam.ptr].strong = fam.pre

\* C8: each conversion gives the variant of the table, and dereferencing the
\* result gives the content of the source
Is(s, tag, x) ==
  /\ vals[s].tag = tag
  /\ Deref(vals[s], heap) = x /\ AsRef(vals[s], heap) = x /\ Borrow(vals[s], heap) = x

C8_Conversions ==
  [][\A s \in Operands :
       (~Live(vals[s]) /\ Live(vals'[s])) =>
         /\ \A x \in TVals : FromRef(s, x) => Is(s, "Borrowed", x)'
         /\ \A a \in Addrs : FromArc(s, a) => Is(s, "Owned", heap[a].data)'
         /\ \A a \in Addrs : FromArcRef(s, a) => Is(s, "Owned", heap[a].data)'
         /\ \A b \in ByteSeqs : FromString(s, b) => Is(s, "Owned", Str(b))'
         /\ \A b \in ByteSeqs : FromStringRef(s, b) => Is(s, "Owned", Str(b))'
         /\ \A b \in ByteSeqs : FromVec(s, b) => Is(s, "Owned", Slice(b))'
         /\ \A b \in ByteSeqs : FromStrBytes(s, b) => Is(s, "Borrowed", Slice(b))'
         /\ \A cow \in Cows : FromCow(s, cow) => Is(s, cow.tag, Str(cow.b))'
    ]_vars

C8_Witness ==
  \E s \in Operands, t \in Operands :
    /\ vals[s].tag = "Borrowed" /\ Deref(vals[s], heap) = Slice(<<97>>)
    /\ vals[t].tag = "Owned" /\ Deref(vals[t], heap) = Str(<<97>>)
    /\ out = NoOut

---------------------------------------------------------------------------
(* Properties of the hash table (SpecMap) *)

EntryKeys == {map[c][i].k : <<c, i>> \in UNION {{<<c, i>> : i \in 1 .. Len(map[c])} : c \in Buckets}}

\* C7: a lookup finds the value last inserted under a key of the same content,
\* whatever the variants of the two keys, and nothing for a content never
\* inserted; keys of equal content share one entry
C7_LookupByContent ==
  /\ out.op = "get" => out.res = mghost[out.b]
  /\ \A x \in StrVals :
       /\ MapGetOp(map, heap, Borrowed(x)) = mghost[x]
       /\ MapGetBorrowedOp(map, heap, x) = mghost[x]
  /\ MapLen(map) = Cardinality({x \in StrVals : mghost[x] # 0})

C7_Witness ==
  /\ out.op = "get" /\ out.a = "Borrowed" /\ out.res # 0
  /\ \E k \in EntryKeys : k.tag = "Owned" /\ AsRef(k, heap) = out.b
  /\ \E k \in EntryKeys : k.tag = "Borrowed"

---------------------------------------------------------------------------
(* Properties of the threads (SpecConc) *)

OwnedHandles == {<<t, i>> \in Threads \X Locals : thr[t].loc[i] = Owned(Shared)}
BorrowedValues == {<<t, i>> \in Threads \X Locals : thr[t].loc[i].tag = "Borrowed"}
Freeing == {t \in Threads : thr[t].pc = "free"}

\* C5: in every interleaving the strong count is the number of live Owned
\* handles; the allocation is live, with its data, as long as there is one; it is
\* never freed twice; it is freed once the last handle is dropped and that
\* thread has done the deallocation, whatever Borrowed values there are
C5_SharedCount ==
  /\ heap[Shared].st # "corrupt"
  /\ heap[Shared].st = "live" => heap[Shared].strong = Cardinality(OwnedHandles)
  /\ OwnedHandles # {} => heap[Shared].st = "live" /\ heap[Shared].data = SharedData
  /\ heap[Shared].st = "free" <=> (OwnedHandles = {} /\ Freeing = {})
  /\ Cardinality(Freeing) <= 1
  /\ out.op = "deref" => out.res \in {SharedData, Static}

C5_Witness ==
  /\ heap[Shared].st = "free"
  /\ \E t \in Threads : t # 1 /\ thr[t].freed
  /\ BorrowedValues # {}
  /\ out.op = "deref" /\ out.res = SharedData

====
